---- MODULE Spec2Model ----
(***************************************************************************)
(* The three Asset Compute metadata workers of the repository, each as one *)
(* invocation of exports.main:                                             *)
(*   "tagsFor"      src/unnamed/part_001: custom-classifier tag worker     *)
(*                  calling callClassifier from a for loop, one await per  *)
(*                  classifier;                                            *)
(*   "tagsForEach"  src/unnamed/part_002: tag worker issuing its calls     *)
(*                  from classifier_ids.forEach(async ...);                *)
(*   "colorextract" src/projects/worker-ccai-colorextract: one multipart   *)
(*                  call, parseColors, sortColors, three projections.      *)
(* An invocation is a JavaScript async function: code between two awaits   *)
(* runs to completion, and a suspended continuation resumes only while the *)
(* main function is itself suspended at an await or has returned.          *)
(***************************************************************************)
EXTENDS Integers, Sequences, FiniteSets, TLC

VARIABLES
    worker,          \* which exports.main is invoked
    classifier_ids,  \* configured targets, in order (one analyzer for colors)
    sourceSize,      \* stats.size of source.path
    senseiParams,    \* rendition.instructions.SENSEI_PARAMS (colorextract)
    pc,              \* position of exports.main
    idx,             \* loop variable of the for / forEach over classifier_ids
    requests,        \* HTTP requests issued so far: target positions, in order
    pending,         \* target positions whose axios promise is not settled
    responded,       \* per target position, what axios settled with
    tags,            \* allTags / tags / colors: the feature list of main
    caught,          \* target positions whose exception a catch discarded
    logged,          \* console.log lines of the catch blocks
    xmp,             \* what was handed to serializeXmp
    written,         \* what fs.writeFile put at rendition.path
    error            \* what exports.main threw

vars == <<worker, classifier_ids, sourceSize, senseiParams, pc, idx, requests,
          pending, responded, tags, caught, logged, xmp, written, error>>

(***************************************************************************)
(* Bounds of the model.                                                    *)
(***************************************************************************)
MaxClassifiers == 2
MaxHeaders == 3

Workers == {"tagsFor", "tagsForEach", "colorextract"}

\* part_001:19 '10021,10023' / part_002:24 ['10021','10023']
DEFAULT_CLASSIFIER_IDS == <<"10021", "10023">>

\* worker-ccai-colorextract.js:24
DEFAULT_ANALYZER_ID == "Feature:cintel-image-classifier"

ClassifierIdLists ==
    UNION {[1..n -> {DEFAULT_CLASSIFIER_IDS[1], DEFAULT_CLASSIFIER_IDS[2]}] :
           n \in 1..MaxClassifiers}

(***************************************************************************)
(* Values.  Confidence is in percent, coverage in thousandths, so that the *)
(* model stays within the integers.                                        *)
(***************************************************************************)
Tag(t, c) == [tag |-> t, confidence |-> c]

Color(n, cov, r, g, b) ==
    [name |-> n, coverage |-> cov, red |-> r, green |-> g, blue |-> b]

TextLine(s) == [kind |-> "text", text |-> s, colors |-> <<>>]

\* The text of a JSON document [{"colors": {...}}], keys in document order.
JsonLine(cs) == [kind |-> "json", text |-> "", colors |-> cs]

Part(n, h, body) == [name |-> n, nheaders |-> h, payload |-> body]

NoTagData == [hasResult |-> FALSE, tags |-> <<>>]

TagData(ts) == [hasResult |-> TRUE, tags |-> ts]

NoOutcome ==
    [kind |-> "none", status |-> 0, statusText |-> "", requestId |-> "",
     tagData |-> NoTagData, parts |-> <<>>]

TagResponse(st, txt, d) ==
    [kind |-> "response", status |-> st, statusText |-> txt, requestId |-> "rq",
     tagData |-> d, parts |-> <<>>]

MultipartResponse(st, txt, ps) ==
    [kind |-> "response", status |-> st, statusText |-> txt, requestId |-> "rq",
     tagData |-> NoTagData, parts |-> ps]

NetworkError ==
    [kind |-> "networkError", status |-> 0, statusText |-> "", requestId |-> "",
     tagData |-> NoTagData, parts |-> <<>>]

NoError == [name |-> "none", message |-> <<>>]

NoDoc == [kind |-> "none", labels |-> <<>>, colorNames |-> <<>>,
          colorRGB |-> <<>>, colors |-> <<>>]

(***************************************************************************)
(* What the remote services may answer.                                    *)
(***************************************************************************)
SourceSizes == {0, 1024}

SenseiParamsValues == {"unset", "json", "notjson"}

TagLists ==
    { <<>>,
      <<Tag("cat", 90)>>,
      <<Tag("dog", 70), Tag("cat", 40)>> }

TagOutcomes ==
    {TagResponse(200, "OK", TagData(ts)) : ts \in TagLists}
    \cup {TagResponse(200, "OK", NoTagData),
          TagResponse(404, "Not Found", NoTagData),
          TagResponse(500, "Internal Server Error", NoTagData),
          NetworkError}

ColorLists ==
    { <<>>,
      <<Color("red", 600, 200, 10, 10)>>,
      <<Color("blue", 300, 10, 0, 255), Color("red", 595, 200, 10, 10)>>,
      <<Color("hot", 500, 300, 0, 0)>>,
      <<Color("odd", 1500, 10, 0, 255)>> }

Payloads == {JsonLine(cs) : cs \in ColorLists} \cup {TextLine("not json")}

InfilePart == Part("infile", 2, TextLine("bytes"))

MultipartBodies ==
    { <<>>, <<InfilePart>> }
    \cup {<<Part("result", h, p)>> : h \in 1..MaxHeaders, p \in Payloads}
    \cup {<<InfilePart, Part("result", 2, p)>> : p \in Payloads}

ColorOutcomes ==
    {MultipartResponse(200, "OK", b) : b \in MultipartBodies}
    \cup {MultipartResponse(202, "Accepted", b) : b \in {<<>>, <<InfilePart>>}}
    \cup {MultipartResponse(401, "Unauthorized", <<>>),
          MultipartResponse(500, "Internal Server Error", <<>>),
          NetworkError}

(***************************************************************************)
(* axios: the promise resolves with a 2xx response and rejects otherwise;  *)
(* the rejection carries error.response when a response was received.      *)
(***************************************************************************)
AxiosResolves(o) == o.kind = "response" /\ o.status >= 200 /\ o.status < 300

HasErrorResponse(o) == o.kind = "response" /\ ~AxiosResolves(o)

(***************************************************************************)
(* JSON.parse of a string.  An argument that is not a string is converted  *)
(* to one first: an object becomes "[object Object]", undefined becomes    *)
(* "undefined"; neither is JSON.                                           *)
(***************************************************************************)
JSON_parse(line) ==
    IF line.kind = "json"
    THEN [ok |-> TRUE, colors |-> line.colors]
    ELSE [ok |-> FALSE, colors |-> <<>>]

ObjectAsText == TextLine("[object Object]")

UndefinedAsText == TextLine("undefined")

\* callClassifier with a catch that logs and returns no tags instead of throwing
callClassifierSwallow(classifierId, o) ==
    IF AxiosResolves(o) /\ o.tagData.hasResult
    THEN [ok |-> TRUE, tags |-> o.tagData.tags, error |-> NoError,
          log |-> <<>>]
    ELSE [ok |-> TRUE, tags |-> <<>>, error |-> NoError,
          log |-> <<"Request failed:", "x-request-id:">>]

(***************************************************************************)
(* part_001: callClassifier.  The await and the read of                    *)
(* response.data.result[0].tags are both inside the try; the catch logs    *)
(* when error.response exists and throws a new Error built from the status *)
(* and the status text alone.                                              *)
(***************************************************************************)
callClassifier(classifierId, o) ==
    IF AxiosResolves(o) /\ o.tagData.hasResult
    THEN [ok |-> TRUE, tags |-> o.tagData.tags, error |-> NoError,
          log |-> <<>>]
    ELSE [ok |-> FALSE, tags |-> <<>>,
          error |-> [name |-> "Error",
                     message |->
                        IF HasErrorResponse(o)
                        THEN <<"Failed getting custom tags:",
                               ToString(o.status), o.statusText>>
                        ELSE <<"Failed getting custom tags:",
                               "undefined", "undefined">>],
          log |-> IF HasErrorResponse(o)
                  THEN <<"Request failed:", "x-request-id:">>
                  ELSE <<>>]

\* allTags.map(t => ({"ccai:name": t.tag, "ccai:percentage": t.confidence}))
serializeTagsFor(allTags) ==
    [kind |-> "xmp",
     labels |-> [i \in DOMAIN allTags |->
                    [name |-> allTags[i].tag,
                     percentage |-> allTags[i].confidence]],
     colorNames |-> <<>>, colorRGB |-> <<>>, colors |-> <<>>]

(***************************************************************************)
(* part_002: the async callback of classifier_ids.forEach after its await. *)
(* A rejection goes to the catch.  A resolution is logged and then         *)
(* JSON.parse is applied to the response object, which throws; had it not, *)
(* the assignment to the const tags would.  The catch only logs.           *)
(***************************************************************************)
forEachCallback(ts, o) ==
    IF ~AxiosResolves(o)
    THEN [tags |-> ts, exception |-> "AxiosError", log |-> <<"Exception:">>]
    ELSE IF JSON_parse(ObjectAsText).ok
         THEN [tags |-> ts, exception |-> "TypeError",
               log |-> <<"Response:", "Exception:">>]
         ELSE [tags |-> ts, exception |-> "SyntaxError",
               log |-> <<"Response:", "Exception:">>]

\* tags.map(tag => ({"ccai:name": tag.name, "ccai:percentage": tag.percentage}))
serializeTagsForEach(ts) ==
    [kind |-> "xmp",
     labels |-> [i \in DOMAIN ts |->
                    [name |-> ts[i].name, percentage |-> ts[i].percentage]],
     colorNames |-> <<>>, colorRGB |-> <<>>, colors |-> <<>>]

(***************************************************************************)
(* worker-ccai-colorextract.js: parseColors.  body.split("--"+boundary)    *)
(* gives the text before the first delimiter, one string per part and the  *)
(* text after the closing delimiter; a part string is held here as the     *)
(* list of pieces part.split('\r\n') gives: an empty piece (the CRLF that   *)
(* ends the delimiter line), the header lines, an empty piece, the body,   *)
(* an empty piece.                                                         *)
(***************************************************************************)
ResultDisposition == "Content-Disposition: form-data; name=\"result\""

Disposition(n) ==
    IF n = "result"
    THEN ResultDisposition
    ELSE "Content-Disposition: form-data; name=\"infile\""

PartLines(p) ==
    <<TextLine(""), TextLine(Disposition(p.name))>>
    \o [i \in 1..(p.nheaders - 1) |-> TextLine("Content-Type: application/json")]
    \o <<TextLine(""), p.payload, TextLine("")>>

BodySplit(ps) ==
    << <<TextLine("")>> >>
    \o [i \in DOMAIN ps |-> PartLines(ps[i])]
    \o << <<TextLine("--"), TextLine("")>> >>

\* the test with the part name left out of the searched text
IndexOfAnyDispositionPositive(lines) ==
    \E i \in 2..Len(lines) :
       lines[i].text \in {ResultDisposition, Disposition("infile")}

\* part.indexOf('Content-Disposition: form-data; name="result"') > 0
IndexOfResultPositive(lines) ==
    \E i \in 2..Len(lines) : lines[i].text = ResultDisposition

\* subParts[4], undefined past the end of the array
SubPart4(lines) == IF Len(lines) >= 5 THEN lines[5] ELSE UndefinedAsText

Least(S) == CHOOSE x \in S : \A y \in S : x <= y

parseColors(response) ==
    IF response.status = 200
    THEN LET parts == BodySplit(response.parts)
             hits == {i \in DOMAIN parts : IndexOfResultPositive(parts[i])}
         IN  IF hits = {}
             THEN [ok |-> TRUE, colors |-> <<>>, error |-> NoError]
             ELSE LET responseJson == JSON_parse(SubPart4(parts[Least(hits)]))
                  IN  IF responseJson.ok
                      THEN [ok |-> TRUE,
                            colors |->
                              [i \in DOMAIN responseJson.colors |->
                                 [name |-> responseJson.colors[i].name,
                                  percentage |-> responseJson.colors[i].coverage,
                                  red |-> responseJson.colors[i].red,
                                  green |-> responseJson.colors[i].green,
                                  blue |-> responseJson.colors[i].blue]],
                            error |-> NoError]
                      ELSE [ok |-> FALSE, colors |-> <<>>,
                            error |-> [name |-> "SyntaxError",
                                       message |-> <<"Unexpected token">>]]
    ELSE [ok |-> TRUE, colors |-> <<>>, error |-> NoError]

(***************************************************************************)
(* sortColors: colors.sort((a, b) => b.percentage - a.percentage), a       *)
(* stable sort, high coverage first.                                       *)
(***************************************************************************)
RECURSIVE InsertByPercentage(_, _)
InsertByPercentage(c, sorted) ==
    IF sorted = <<>>
    THEN <<c>>
    ELSE IF Head(sorted).percentage >= c.percentage
         THEN <<Head(sorted)>> \o InsertByPercentage(c, Tail(sorted))
         ELSE <<c>> \o sorted

RECURSIVE sortColors(_)
sortColors(colors) ==
    IF colors = <<>>
    THEN <<>>
    ELSE InsertByPercentage(colors[Len(colors)],
                            sortColors(SubSeq(colors, 1, Len(colors) - 1)))

\* `${Math.round(color.percentage * 100.0)}%`, coverage in thousandths
toPercentageString(color) ==
    <<ToString((color.percentage + 5) \div 10), "%">>

HexDigits == <<"0", "1", "2", "3", "4", "5", "6", "7",
               "8", "9", "a", "b", "c", "d", "e", "f">>

\* Buffer.from(arr) stores each number modulo 256
ToUint8(v) == v % 256

ByteToHex(b) == <<HexDigits[(b \div 16) + 1], HexDigits[(b % 16) + 1]>>

\* `#${Buffer.from([red, green, blue]).toString('hex')}`
toWebColor(color) ==
    <<"#">> \o ByteToHex(ToUint8(color.red))
            \o ByteToHex(ToUint8(color.green))
            \o ByteToHex(ToUint8(color.blue))

serializeColors(colors) ==
    [kind |-> "xmp",
     labels |-> <<>>,
     colorNames |-> [i \in DOMAIN colors |->
                       <<colors[i].name>> \o toPercentageString(colors[i])],
     colorRGB |-> [i \in DOMAIN colors |->
                     toWebColor(colors[i]) \o toPercentageString(colors[i])],
     colors |-> [i \in DOMAIN colors |->
                   [name |-> colors[i].name,
                    percentage |-> colors[i].percentage,
                    red |-> colors[i].red,
                    green |-> colors[i].green,
                    blue |-> colors[i].blue]]]

(***************************************************************************)
(* The state after the harness has called exports.main.                    *)
(***************************************************************************)
Init ==
    /\ worker \in Workers
    /\ classifier_ids \in
         IF worker = "colorextract"
         THEN {<<DEFAULT_ANALYZER_ID>>}
         ELSE ClassifierIdLists
    /\ sourceSize \in SourceSizes
    /\ senseiParams \in
         IF worker = "colorextract" THEN SenseiParamsValues ELSE {"unset"}
    /\ pc = "stat"
    /\ idx = 1
    /\ requests = <<>>
    /\ pending = {}
    /\ responded = [i \in DOMAIN classifier_ids |-> NoOutcome]
    /\ tags = <<>>
    /\ caught = {}
    /\ logged = <<>>
    /\ xmp = NoDoc
    /\ written = NoDoc
    /\ error = NoError

\* exports.main rejects with e: nothing after the throw is executed.
Throw(e) == pc' = "failed" /\ error' = e

\* the size check with the comparison turned into one no size satisfies
SourceIsEmptyNever(size) == size < 0

\* stats.size === 0
SourceIsEmpty(size) == size = 0

(***************************************************************************)
(* All three workers: fs.stat(source.path) resolves and the size is        *)
(* checked before anything else is done with the source.                   *)
(***************************************************************************)
Stat ==
    /\ pc = "stat"
    /\ IF SourceIsEmpty(sourceSize)
       THEN Throw([name |-> "SourceCorruptError",
                   message |-> <<"source file is empty">>])
       ELSE /\ pc' = CASE worker = "tagsFor" -> "for"
                        [] worker = "tagsForEach" -> "forEach"
                        [] OTHER -> "params"
            /\ error' = error
    /\ UNCHANGED <<worker, classifier_ids, sourceSize, senseiParams, idx,
                   requests, pending, responded, tags, caught, logged, xmp,
                   written>>

(***************************************************************************)
(* part_001: for (const idx in classifier_ids) { await callClassifier }.   *)
(***************************************************************************)
ForCall ==
    /\ worker = "tagsFor"
    /\ pc = "for"
    /\ idx <= Len(classifier_ids)
    /\ requests' = Append(requests, idx)
    /\ pending' = pending \cup {idx}
    /\ pc' = "awaitCall"
    /\ UNCHANGED <<worker, classifier_ids, sourceSize, senseiParams, idx,
                   responded, tags, caught, logged, xmp, written, error>>

\* ForReturn with a failed call sent back to the head of the loop body
ForReturnRetry ==
    /\ worker = "tagsFor"
    /\ pc = "awaitCall"
    /\ \E o \in TagOutcomes :
          LET r == callClassifier(classifier_ids[idx], o)
          IN  /\ responded' = [responded EXCEPT ![idx] = o]
              /\ pending' = pending \ {idx}
              /\ logged' = logged \o r.log
              /\ tags' = tags \o r.tags
              /\ idx' = IF r.ok THEN idx + 1 ELSE idx
              /\ pc' = "for"
              /\ error' = error
    /\ UNCHANGED <<worker, classifier_ids, sourceSize, senseiParams, requests,
                   caught, xmp, written>>

ForReturn ==
    /\ worker = "tagsFor"
    /\ pc = "awaitCall"
    /\ \E o \in TagOutcomes :
          LET r == callClassifier(classifier_ids[idx], o)
          IN  /\ responded' = [responded EXCEPT ![idx] = o]
              /\ pending' = pending \ {idx}
              /\ logged' = logged \o r.log
              /\ IF r.ok
                 THEN /\ tags' = tags \o r.tags
                      /\ idx' = idx + 1
                      /\ pc' = "for"
                      /\ error' = error
                 ELSE /\ Throw(r.error)
                      /\ UNCHANGED <<tags, idx>>
    /\ UNCHANGED <<worker, classifier_ids, sourceSize, senseiParams, requests,
                   caught, xmp, written>>

ForSerialize ==
    /\ worker = "tagsFor"
    /\ pc = "for"
    /\ idx > Len(classifier_ids)
    /\ xmp' = serializeTagsFor(tags)
    /\ pc' = "writeFile"
    /\ UNCHANGED <<worker, classifier_ids, sourceSize, senseiParams, idx,
                   requests, pending, responded, tags, caught, logged, written,
                   error>>

(***************************************************************************)
(* part_002: classifier_ids.forEach(async classifierId => ...).  forEach   *)
(* runs each callback up to its await axios.post and drops the promise it  *)
(* returns; main goes on to serializeXmp without an await in between.      *)
(***************************************************************************)
ForEachCall ==
    /\ worker = "tagsForEach"
    /\ pc = "forEach"
    /\ idx <= Len(classifier_ids)
    /\ requests' = Append(requests, idx)
    /\ pending' = pending \cup {idx}
    /\ idx' = idx + 1
    /\ UNCHANGED <<worker, classifier_ids, sourceSize, senseiParams, pc,
                   responded, tags, caught, logged, xmp, written, error>>

ForEachSerialize ==
    /\ worker = "tagsForEach"
    /\ pc = "forEach"
    /\ idx > Len(classifier_ids)
    /\ xmp' = serializeTagsForEach(tags)
    /\ pc' = "writeFile"
    /\ UNCHANGED <<worker, classifier_ids, sourceSize, senseiParams, idx,
                   requests, pending, responded, tags, caught, logged, written,
                   error>>

\* A callback resumes once main is suspended at await fs.writeFile or is over.
ForEachResume(i) ==
    /\ worker = "tagsForEach"
    /\ pc \in {"writeFile", "done"}
    /\ i \in pending
    /\ \E o \in TagOutcomes :
          LET r == forEachCallback(tags, o)
          IN  /\ responded' = [responded EXCEPT ![i] = o]
              /\ pending' = pending \ {i}
              /\ tags' = r.tags
              /\ caught' = caught \cup {i}
              /\ logged' = logged \o r.log
    /\ UNCHANGED <<worker, classifier_ids, sourceSize, senseiParams, pc, idx,
                   requests, xmp, written, error>>

(***************************************************************************)
(* worker-ccai-colorextract.js.  With SENSEI_PARAMS set, JSON.parse may    *)
(* throw and, if it does not, the assignment to the const parameters does. *)
(***************************************************************************)
ColorParams ==
    /\ worker = "colorextract"
    /\ pc = "params"
    /\ IF senseiParams = "unset"
       THEN pc' = "request" /\ error' = error
       ELSE Throw([name |-> IF senseiParams = "json"
                            THEN "TypeError" ELSE "SyntaxError",
                   message |-> <<"SENSEI_PARAMS">>])
    /\ UNCHANGED <<worker, classifier_ids, sourceSize, senseiParams, idx,
                   requests, pending, responded, tags, caught, logged, xmp,
                   written>>

ColorCall ==
    /\ worker = "colorextract"
    /\ pc = "request"
    /\ requests' = Append(requests, idx)
    /\ pending' = pending \cup {idx}
    /\ pc' = "awaitCall"
    /\ UNCHANGED <<worker, classifier_ids, sourceSize, senseiParams, idx,
                   responded, tags, caught, logged, xmp, written, error>>

\* const response = await axios(request); parse, sort, serialize to XMP
ColorReturn ==
    /\ worker = "colorextract"
    /\ pc = "awaitCall"
    /\ \E o \in ColorOutcomes :
          /\ responded' = [responded EXCEPT ![idx] = o]
          /\ pending' = pending \ {idx}
          /\ IF ~AxiosResolves(o)
             THEN /\ Throw([name |-> "AxiosError",
                            message |-> <<"Request failed">>])
                  /\ UNCHANGED <<tags, xmp>>
             ELSE LET parsed == parseColors(o)
                  IN  IF parsed.ok
                      THEN /\ tags' = sortColors(parsed.colors)
                           /\ xmp' = serializeColors(tags')
                           /\ pc' = "writeFile"
                           /\ error' = error
                      ELSE /\ Throw(parsed.error)
                           /\ UNCHANGED <<tags, xmp>>
    /\ UNCHANGED <<worker, classifier_ids, sourceSize, senseiParams, idx,
                   requests, caught, logged, written>>

\* await fs.writeFile(rendition.path, xmp), the last statement of each main
WriteFile ==
    /\ pc = "writeFile"
    /\ written' = xmp
    /\ pc' = "done"
    /\ UNCHANGED <<worker, classifier_ids, sourceSize, senseiParams, idx,
                   requests, pending, responded, tags, caught, logged, xmp,
                   error>>

Next ==
    \/ Stat
    \/ ForCall
    \/ ForReturn
    \/ ForSerialize
    \/ ForEachCall
    \/ ForEachSerialize
    \/ \E i \in 1..MaxClassifiers : ForEachResume(i)
    \/ ColorParams
    \/ ColorCall
    \/ ColorReturn
    \/ WriteFile

Spec == Init /\ [][Next]_vars

(***************************************************************************)
(* Vocabulary of the properties.                                           *)
(***************************************************************************)
\* The call to target i has settled.
Settled(i) == responded[i].kind # "none"

\* A call that ended with a non-200 response or with a network error.
CallFailed(o) ==
    \/ o.kind = "networkError"
    \/ o.kind = "response" /\ o.status # 200

\* A tag call that returned a result with tags.
TagCallSucceeded(o) ==
    o.kind = "response" /\ o.status = 200 /\ o.tagData.hasResult

RequestsTo(i) == Cardinality({k \in DOMAIN requests : requests[k] = i})

NonIncreasing(s) == \A i \in 1..(Len(s) - 1) : s[i] >= s[i + 1]

EmptyColorDoc ==
    [kind |-> "xmp", labels |-> <<>>, colorNames |-> <<>>,
     colorRGB |-> <<>>, colors |-> <<>>]

C2_EmptySourceFailsFirst ==
    sourceSize = 0
    => /\ requests = <<>>
       /\ pending = {}
       /\ xmp = NoDoc
       /\ written = NoDoc
       /\ pc \in {"stat", "failed"}
       /\ (pc = "failed" => error.name = "SourceCorruptError")

\* C2 witness: an invocation on an empty source that has failed with
\* SourceCorruptError.
C2_Witness ==
    /\ sourceSize = 0
    /\ pc = "failed"
    /\ error.name = "SourceCorruptError"
    /\ requests = <<>>

\* C3: in the forEach tag worker, a document is handed to serializeXmp, and
\* written, only when no issued classifier call is still outstanding.
C3_SerializedAfterAllCalls ==
    (worker = "tagsForEach" /\ (xmp # NoDoc \/ written # NoDoc))
    => pending = {}

\* The labels a sequential run over the configured list gives: the tags of
\* target 1, then those of target 2, and so on.
RECURSIVE TagsInTargetOrder(_)
TagsInTargetOrder(n) ==
    IF n = 0
    THEN <<>>
    ELSE TagsInTargetOrder(n - 1) \o responded[n].tagData.tags

LabelsInTargetOrder ==
    LET ts == TagsInTargetOrder(Len(classifier_ids))
    IN  [i \in DOMAIN ts |->
           [name |-> ts[i].tag, percentage |-> ts[i].confidence]]

\* C4: in both tag workers, once every call has succeeded and the document
\* is written, its labels are the features of the targets concatenated in
\* the configured target order, whatever the order the calls completed in.
C4_ConfiguredTargetOrder ==
    (worker \in {"tagsFor", "tagsForEach"}
       /\ written # NoDoc
       /\ \A i \in DOMAIN responded : TagCallSucceeded(responded[i]))
    => written.labels = LabelsInTargetOrder

\* A call that ended with a non-success HTTP status or a network error.
CallEndedInFailure(o) ==
    \/ o.kind = "networkError"
    \/ o.kind = "response" /\ (o.status < 200 \/ o.status > 299)

\* C5: in every worker, a classifier call that ended with a non-success
\* status or a network error is not caught and discarded: no document is
\* written by an invocation in which such a call has settled.
C5_FailureNeverDiscarded ==
    (\E i \in DOMAIN responded : CallEndedInFailure(responded[i]))
    => written = NoDoc

\* The scores of the feature sequence a document carries.
Scores(doc) ==
    IF worker = "colorextract"
    THEN [i \in DOMAIN doc.colors |-> doc.colors[i].percentage]
    ELSE [i \in DOMAIN doc.labels |-> doc.labels[i].percentage]

\* C6: in every worker, the feature sequence handed to serializeXmp is
\* ordered non-increasing by confidence (tags) or coverage (colors).
C6_SerializedSorted ==
    xmp # NoDoc => NonIncreasing(Scores(xmp))

\* C7: in the for-loop tag worker, the Error thrown for a classifier call
\* that ended with a non-200 response carries the id of the classifier
\* whose call failed, together with the HTTP status.
C7_ErrorNamesClassifier ==
    (worker = "tagsFor"
       /\ pc = "failed"
       /\ responded[idx].kind = "response"
       /\ responded[idx].status # 200)
    => /\ \E k \in DOMAIN error.message :
             error.message[k] = classifier_ids[idx]
       /\ \E k \in DOMAIN error.message :
             error.message[k] = ToString(responded[idx].status)

\* No part of the multipart body is named result (a body without parts
\* included).
NoPartNamedResult(o) == \A k \in DOMAIN o.parts : o.parts[k].name # "result"

OutOfRange(c) ==
    \/ c.red \notin 0..255
    \/ c.green \notin 0..255
    \/ c.blue \notin 0..255
    \/ c.percentage \notin 0..1000

\* C9: in the color worker, a decoded payload with a channel or a coverage
\* out of range fails the invocation with InvalidFeatureError and no
\* document is serialized or written.
C9_OutOfRangeRejected ==
    (worker = "colorextract"
       /\ AxiosResolves(responded[1])
       /\ parseColors(responded[1]).ok
       /\ \E k \in DOMAIN parseColors(responded[1]).colors :
             OutOfRange(parseColors(responded[1]).colors[k]))
    => /\ pc = "failed"
       /\ error.name = "InvalidFeatureError"
       /\ xmp = NoDoc
       /\ written = NoDoc

\* C10: in every worker, each configured target receives at most one HTTP
\* request, a settled call was requested exactly once, and the number of
\* requests never exceeds the number of configured targets.
C10_AtMostOneRequestPerTarget ==
    /\ \A k \in DOMAIN requests : requests[k] \in DOMAIN classifier_ids
    /\ \A i \in DOMAIN classifier_ids : RequestsTo(i) <= 1
    /\ \A i \in DOMAIN classifier_ids :
          (Settled(i) \/ i \in pending) => RequestsTo(i) = 1
    /\ Len(requests) <= Len(classifier_ids)

\* C10 witness: the second of two classifier calls has failed, the
\* invocation is over, and each target was asked once.
C10_Witness ==
    /\ worker = "tagsFor"
    /\ Len(classifier_ids) = 2
    /\ pc = "failed"
    /\ CallFailed(responded[2])
    /\ requests = <<1, 2>>

\* The piece that follows the first blank line of a part: the blank line
\* that ends the header block comes after the piece closing the delimiter.
BodyAfterFirstBlankLine(lines) ==
    LET blanks == {i \in 2..(Len(lines) - 1) :
                      lines[i].kind = "text" /\ lines[i].text = ""}
    IN  lines[Least(blanks) + 1]

\* The parts of a response that are named result.
ResultParts(o) == {k \in DOMAIN o.parts : o.parts[k].name = "result"}

\* C11: in the color worker, for a status-200 response with a part named
\* result whose body is JSON, whatever the number of header lines of that
\* part, the invocation does not fail and the colors it sorts and
\* serializes are those of the body after the part's first blank line.
C11_BodyAfterBlankLineParsed ==
    (worker = "colorextract"
       /\ responded[1].kind = "response"
       /\ responded[1].status = 200
       /\ ResultParts(responded[1]) # {}
       /\ responded[1].parts[Least(ResultParts(responded[1]))].payload.kind
             = "json")
    => LET part == responded[1].parts[Least(ResultParts(responded[1]))]
           body == BodyAfterFirstBlankLine(PartLines(part))
       IN  /\ pc # "failed"
           /\ Len(tags) = Len(body.colors)
           /\ \A i \in DOMAIN body.colors :
                 \E j \in DOMAIN tags :
                    /\ tags[j].name = body.colors[i].name
                    /\ tags[j].percentage = body.colors[i].coverage

====
